---- MODULE Spec2Model ----
(***************************************************************************)
(* Model of TwitchChannelPointsMiner/classes/entities/Bet.py: the          *)
(* BetSettings defaults, the ingest of outcome snapshots                   *)
(* (Bet.update_outcomes), the decision (Bet.calculate) and the filter      *)
(* predicate (Bet.skip).                                                   *)
(*                                                                         *)
(* Numbers.  The raw totals, top_points, balance and amount are integers.  *)
(* The derived fields percentage_users, odds and odds_percentage are       *)
(* floats rounded to two decimals; they are held as integers counting      *)
(* hundredths (odds 1.11 is 111).  A threshold of a filter is held in the  *)
(* unit of the field it is compared with.  The draw uniform(1, 5) is held  *)
(* in halves (2 is 1.0, 3 stands for any real of (1, 2), ..., 10 is 5.0),  *)
(* which separates every outcome of int(top_points - reduce_amount).       *)
(***************************************************************************)
EXTENDS Integers, Sequences, FiniteSets, TLC

VARIABLES
    outcomes,       \* Bet.outcomes: the two outcome dicts, index 0 and 1
    decision,       \* Bet.decision
    total_users,    \* Bet.total_users
    total_points,   \* Bet.total_points
    settings,       \* Bet.settings (a BetSettings)
    lastOp,         \* the method that ran last
    snapshot,       \* argument of the last update_outcomes call
    balance,        \* argument of the last calculate call
    reduce_amount,  \* the draw of the last calculate call, in halves (0: none)
    skip_result,    \* what the last skip call returned
    ingests,        \* number of update_outcomes calls so far
    pending         \* snapshots the event has yet to deliver

vars == <<outcomes, decision, total_users, total_points, settings, lastOp,
          snapshot, balance, reduce_amount, skip_result, ingests, pending>>

----------------------------------------------------------------------------
(* Bounds of the inputs *)

MaxUsers == 1        \* total_users of one outcome in a snapshot
MaxPoints == 2       \* total_points of one outcome in a snapshot
MaxBalance == 7      \* balance handed to calculate
MaxStake == 6        \* configured max_points
MaxIngests == 2      \* snapshots one event delivers
SmallTop == 2        \* a small stake in top_predictors
LargeTop == 4        \* a large stake in top_predictors

----------------------------------------------------------------------------
(* Enumerations *)

\* A value that may be None is held as a sequence: <<>> is None, <<v>> is v.
None == <<>>
Some(v) == <<v>>
Val(o) == o[1]

MOST_VOTED == "MOST_VOTED"
HIGH_ODDS == "HIGH_ODDS"
PERCENTAGE == "PERCENTAGE"
SMART == "SMART"
Strategy == {MOST_VOTED, HIGH_ODDS, PERCENTAGE, SMART}

GT == "GT"
LT == "LT"
GTE == "GTE"
LTE == "LTE"
Condition == {GT, LT, GTE, LTE}

PERCENTAGE_USERS == "percentage_users"
ODDS_PERCENTAGE == "odds_percentage"
ODDS == "odds"
TOP_POINTS == "top_points"
TOTAL_USERS == "total_users"
TOTAL_POINTS == "total_points"
DECISION_USERS == "decision_users"
DECISION_POINTS == "decision_points"
OutcomeKeys == {PERCENTAGE_USERS, ODDS_PERCENTAGE, ODDS, TOP_POINTS,
                TOTAL_USERS, TOTAL_POINTS, DECISION_USERS, DECISION_POINTS}

----------------------------------------------------------------------------
(* Helpers of TwitchChannelPointsMiner.utils *)

\* round(n / d, 2) in hundredths; a tie goes to the even hundredth.
float_round(n, d) ==
    LET q == (100 * n) \div d
        r == (100 * n) % d
    IN  IF 2 * r > d THEN q + 1
        ELSE IF 2 * r < d THEN q
        ELSE IF q % 2 = 0 THEN q ELSE q + 1

char_decision_as_index(char) == IF char = "A" THEN 0 ELSE 1

----------------------------------------------------------------------------
(* Dictionaries *)

\* d[k] = v
SetKey(d, k, v) ==
    IF k \in DOMAIN d
    THEN [d EXCEPT ![k] = v]
    ELSE [x \in DOMAIN d \cup {k} |-> IF x = k THEN v ELSE d[x]]

\* sorted(l, key=points, reverse=True): insertion into a descending list
RECURSIVE InsertDesc(_, _)
InsertDesc(x, l) ==
    IF l = <<>> THEN <<x>>
    ELSE IF x > Head(l) THEN <<x>> \o l
    ELSE <<Head(l)>> \o InsertDesc(x, Tail(l))

RECURSIVE SortedDesc(_)
SortedDesc(l) ==
    IF l = <<>> THEN <<>> ELSE InsertDesc(Head(l), SortedDesc(Tail(l)))

----------------------------------------------------------------------------
(* BetSettings *)

DefaultStrategy == SMART
DefaultPercentage == 5
DefaultPercentageGap == 20
DefaultMaxPoints == 50000

\* `x if not None else d`: the condition is `not None`, which is True
\* whatever x is, so the expression is x.
IfNotNoneElse(x, d) == IF ~FALSE THEN x ELSE Some(d)

\* BetSettings.default
default(s) ==
    [s EXCEPT !.strategy = IfNotNoneElse(s.strategy, DefaultStrategy),
              !.percentage = IfNotNoneElse(s.percentage, DefaultPercentage),
              !.percentage_gap = IfNotNoneElse(s.percentage_gap, DefaultPercentageGap),
              !.max_points = IfNotNoneElse(s.max_points, DefaultMaxPoints),
              !.stealth_mode = IfNotNoneElse(s.stealth_mode, FALSE)]

BetSettings(strategy, percentage, gap, max_points, stealth_mode, filter) ==
    [strategy |-> strategy, percentage |-> percentage,
     percentage_gap |-> gap, max_points |-> max_points,
     stealth_mode |-> stealth_mode, filter_condition |-> filter]

FilterCondition(by, where, value) == [by |-> by, where |-> where, value |-> value]

----------------------------------------------------------------------------
(* Bet: construction and ingest *)

Indexes == 0 .. 1

Kept == {TOTAL_USERS, TOTAL_POINTS, TOP_POINTS, PERCENTAGE_USERS, ODDS,
         ODDS_PERCENTAGE, "title", "color", "id"}

Backfilled == {PERCENTAGE_USERS, ODDS, ODDS_PERCENTAGE, TOP_POINTS}

\* Mutant of clear_outcome: the backfill overwrites the fields it finds
clear_outcome_all(o) ==
    [k \in (DOMAIN o \cap Kept) \cup Backfilled |->
        IF k \in DOMAIN o /\ k \notin Backfilled THEN o[k] ELSE 0]

\* Bet.__clear_outcomes, on one outcome dict
clear_outcome(o) ==
    [k \in (DOMAIN o \cap Kept) \cup Backfilled |->
        IF k \in DOMAIN o THEN o[k] ELSE 0]

clear_outcomes(os) == [i \in Indexes |-> clear_outcome(os[i])]

\* The outcome dicts of a prediction event as it is created: nobody has
\* staked yet.
EventOutcomes ==
    [i \in Indexes |->
        [id |-> IF i = 0 THEN "id0" ELSE "id1",
         title |-> IF i = 0 THEN "yes" ELSE "no",
         color |-> IF i = 0 THEN "BLUE" ELSE "PINK",
         total_users |-> 0, total_points |-> 0, top_predictors |-> <<>>]]

\* The first loop of update_outcomes, on one outcome dict
ingest_raw(o, s) ==
    LET o1 == SetKey(o, TOTAL_USERS, s.total_users)
        o2 == SetKey(o1, TOTAL_POINTS, s.total_points)
    IN  IF s.top_predictors # <<>>
        THEN SetKey(o2, TOP_POINTS, Head(SortedDesc(s.top_predictors)))
        ELSE o2

sum_users(os) == os[0][TOTAL_USERS] + os[1][TOTAL_USERS]

sum_points(os) == os[0][TOTAL_POINTS] + os[1][TOTAL_POINTS]

\* The condition under which update_outcomes recomputes the derived fields
guard(os) ==
    /\ sum_users(os) > 0
    /\ os[0][TOTAL_POINTS] > 0
    /\ os[1][TOTAL_POINTS] > 0

\* Mutant of derive: the odds are the outcome's share of the points
derive_share(o, users, points) ==
    LET o1 == SetKey(o, PERCENTAGE_USERS, float_round(100 * o[TOTAL_USERS], users))
        o2 == SetKey(o1, ODDS, float_round(o[TOTAL_POINTS], points))
    IN  SetKey(o2, ODDS_PERCENTAGE, float_round(10000, o2[ODDS]))

\* The second loop of update_outcomes, on one outcome dict
derive(o, users, points) ==
    LET o1 == SetKey(o, PERCENTAGE_USERS, float_round(100 * o[TOTAL_USERS], users))
        o2 == SetKey(o1, ODDS, float_round(points, o[TOTAL_POINTS]))
    IN  \* 100 / odds with odds in hundredths is 10000 / o2[ODDS]
        SetKey(o2, ODDS_PERCENTAGE, float_round(10000, o2[ODDS]))

\* Bet.update_outcomes: the new outcome dicts
update_outcomes(os, snap) ==
    LET raw == [i \in Indexes |-> ingest_raw(os[i], snap[i])]
        derived == IF guard(raw)
                   THEN [i \in Indexes |->
                            derive(raw[i], sum_users(raw), sum_points(raw))]
                   ELSE raw
    IN  clear_outcomes(derived)

----------------------------------------------------------------------------
(* Bet: decision *)

Min(a, b) == IF a <= b THEN a ELSE b

Abs(a) == IF a >= 0 THEN a ELSE -a

\* int(x) of x = n2 / 2: truncation towards zero
int_halves(n2) == IF n2 >= 0 THEN n2 \div 2 ELSE -((-n2) \div 2)

\* Mutant of return_choice: the comparison is not strict
return_choice_nonstrict(os, key) == IF os[0][key] >= os[1][key] THEN "A" ELSE "B"

\* Bet.__return_choice
return_choice(os, key) == IF os[0][key] > os[1][key] THEN "A" ELSE "B"

\* Mutant of choice_of: SMART defers to HIGH_ODDS also when the difference
\* equals percentage_gap
choice_of_le(os, s) ==
    IF s.strategy = Some(MOST_VOTED) THEN Some(return_choice(os, TOTAL_USERS))
    ELSE IF s.strategy = Some(HIGH_ODDS) THEN Some(return_choice(os, ODDS))
    ELSE IF s.strategy = Some(PERCENTAGE)
         THEN Some(return_choice(os, ODDS_PERCENTAGE))
    ELSE IF s.strategy = Some(SMART) THEN
        LET difference == Abs(os[0][PERCENTAGE_USERS] - os[1][PERCENTAGE_USERS])
        IN  IF difference <= 100 * Val(s.percentage_gap)
            THEN Some(return_choice(os, ODDS))
            ELSE Some(return_choice(os, TOTAL_USERS))
    ELSE None

\* The choice calculate makes, None when no branch of the strategy applies
choice_of(os, s) ==
    IF s.strategy = Some(MOST_VOTED) THEN Some(return_choice(os, TOTAL_USERS))
    ELSE IF s.strategy = Some(HIGH_ODDS) THEN Some(return_choice(os, ODDS))
    ELSE IF s.strategy = Some(PERCENTAGE)
         THEN Some(return_choice(os, ODDS_PERCENTAGE))
    ELSE IF s.strategy = Some(SMART) THEN
        LET difference == Abs(os[0][PERCENTAGE_USERS] - os[1][PERCENTAGE_USERS])
        IN  \* percentage_gap is in percent, difference in hundredths of it
            IF difference < 100 * Val(s.percentage_gap)
            THEN Some(return_choice(os, ODDS))
            ELSE Some(return_choice(os, TOTAL_USERS))
    ELSE None

\* Mutant of stake: max_points is not applied
stake_uncapped(s, bal) == (bal * Val(s.percentage)) \div 100

\* min(int(balance * (percentage / 100)), max_points)
stake(s, bal) == Min((bal * Val(s.percentage)) \div 100, Val(s.max_points))

\* Mutant of stealth_applies: an amount equal to top_points is let through
stealth_applies_strict(os, s, index, amount) ==
    /\ s.stealth_mode = Some(TRUE)
    /\ amount > os[index][TOP_POINTS]

\* The condition of the stealth branch of calculate
stealth_applies(os, s, index, amount) ==
    /\ s.stealth_mode = Some(TRUE)
    /\ amount >= os[index][TOP_POINTS]

\* calculate after the reset of self.decision: d0 is the decision it fills in
\* and r2 the draw uniform(1, 5) in halves
calculate_from(d0, os, s, bal, r2) ==
    LET d1 == [d0 EXCEPT !.choice = choice_of(os, s)]
    IN  IF d1.choice # None
        THEN LET index == char_decision_as_index(Val(d1.choice))
                 d2 == [d1 EXCEPT !.id = Some(os[index]["id"])]
                 d3 == [d2 EXCEPT !.amount = stake(s, bal)]
                 d4 == IF stealth_applies(os, s, index, d3.amount)
                       THEN [d3 EXCEPT !.amount =
                                int_halves(2 * os[index][TOP_POINTS] - r2)]
                       ELSE d3
             IN  d4
        ELSE d1

\* Mutant of calculate: the amount is added to the one the last call left
calculate_accumulate(d, os, s, bal, r2) ==
    LET n == calculate_from([choice |-> None, amount |-> 0, id |-> None],
                            os, s, bal, r2)
    IN  [n EXCEPT !.amount = @ + (IF "amount" \in DOMAIN d THEN d.amount ELSE 0)]

\* Bet.calculate: the new decision; d is the decision the last call left
calculate(d, os, s, bal, r2) ==
    calculate_from([choice |-> None, amount |-> 0, id |-> None], os, s, bal, r2)

\* Whether calculate draws uniform(1, 5)
draws(os, s, bal) ==
    /\ choice_of(os, s) # None
    /\ stealth_applies(os, s, char_decision_as_index(Val(choice_of(os, s))),
                       stake(s, bal))

----------------------------------------------------------------------------
(* Bet: filter *)

\* key.replace("decision", "total") for the two decision keys
fixed_key(key) ==
    IF key = DECISION_USERS THEN TOTAL_USERS
    ELSE IF key = DECISION_POINTS THEN TOTAL_POINTS
    ELSE key

\* skip reads decision["choice"] unless the key is a whole-event total
skip_reads_choice(s) ==
    /\ s.filter_condition # None
    /\ Val(s.filter_condition).by \notin {TOTAL_USERS, TOTAL_POINTS}

compared_value(d, os, key) ==
    IF key \in {TOTAL_USERS, TOTAL_POINTS}
    THEN os[0][fixed_key(key)] + os[1][fixed_key(key)]
    ELSE os[char_decision_as_index(Val(d.choice))][fixed_key(key)]

\* Mutant of satisfied: GTE compares strictly
satisfied_gte_strict(condition, compared, value) ==
    \/ condition = GT /\ compared > value
    \/ condition = LT /\ compared < value
    \/ condition = GTE /\ compared > value
    \/ condition = LTE /\ compared <= value

\* The check of the condition in skip
satisfied(condition, compared, value) ==
    \/ condition = GT /\ compared > value
    \/ condition = LT /\ compared < value
    \/ condition = GTE /\ compared >= value
    \/ condition = LTE /\ compared <= value

\* Bet.skip: the pair it returns
skip(d, os, s) ==
    IF s.filter_condition # None
    THEN LET f == Val(s.filter_condition)
             compared == compared_value(d, os, f.by)
         IN  IF satisfied(f.where, compared, f.value)
             THEN <<FALSE, compared>>
             ELSE <<TRUE, compared>>
    ELSE <<FALSE, 0>>

----------------------------------------------------------------------------
(* Inputs *)

\* No bettor on an outcome, or MaxUsers of them
UserCounts == {0, MaxUsers}

\* Nothing staked on an outcome, one point, or MaxPoints
PointTotals == {0, 1, MaxPoints}

PredictorLists == {<<>>, <<SmallTop, LargeTop>>}

\* One outcome of a snapshot that reports no top predictors
OutcomeSnapshots ==
    [total_users : UserCounts, total_points : PointTotals,
     top_predictors : {<<>>}]

ExampleSnapshot ==
    [i \in Indexes |->
        IF i = 0
        THEN [total_users |-> 10, total_points |-> 1000, top_predictors |-> <<>>]
        ELSE [total_users |-> 90, total_points |-> 9000, top_predictors |-> <<>>]]

\* Snapshots that report no top predictors
PlainSnapshots == [Indexes -> OutcomeSnapshots] \cup {ExampleSnapshot}

\* The snapshots the top predictors are reported on: one outcome holds all
\* the bettors, the first a single point and the second MaxPoints
TopShapes ==
    {s \in PlainSnapshots :
        /\ {s[0].total_users, s[1].total_users} = UserCounts
        /\ s[0].total_points = 1
        /\ s[1].total_points = MaxPoints}

\* Snapshots that report top predictors, on either outcome or on both
TopSnapshots ==
    {[i \in Indexes |-> [s[i] EXCEPT !.top_predictors = l[i]]] :
        s \in TopShapes, l \in [Indexes -> PredictorLists]}

Snapshots == PlainSnapshots \cup TopSnapshots

Balances == {0, LargeTop, MaxBalance}

\* uniform(1, 5) in halves: 1.0, (1, 2), 2.0, ..., (4, 5), 5.0
ReduceDraws == 2 .. 10

\* Settings with every field set: the whole balance may be staked, up to
\* MaxStake
Configured(strategy, gap, stealth, filter) ==
    BetSettings(Some(strategy), Some(100), Some(gap), Some(MaxStake),
                Some(stealth), filter)

\* Settings with stealth mode off and no filter
PlainSettings ==
    {Configured(st, DefaultPercentageGap, FALSE, None) : st \in Strategy}
    \cup {Configured(SMART, 100, FALSE, None)}

\* Settings with stealth mode on
StealthSettings ==
    {Configured(st, DefaultPercentageGap, TRUE, None) : st \in Strategy}

\* A threshold each field reaches, passes and stays under
Threshold(by) ==
    IF by \in {TOTAL_USERS, DECISION_USERS} THEN MaxUsers
    ELSE IF by \in {TOTAL_POINTS, DECISION_POINTS} THEN MaxPoints
    ELSE IF by = TOP_POINTS THEN LargeTop
    ELSE IF by = ODDS THEN 200
    ELSE 5000

\* Settings with a filter
FilterSettings ==
    {Configured(MOST_VOTED, DefaultPercentageGap, FALSE,
                Some(FilterCondition(by, where, Threshold(by)))) :
        by \in OutcomeKeys, where \in Condition}

\* Settings as BetSettings() builds them: any field may be unset
UnsetSettings ==
    {BetSettings(st, pc, gap, mx, sm, None) :
        st \in {None} \cup {Some(x) : x \in Strategy},
        pc \in {None, Some(0), Some(100)},
        gap \in {None, Some(0), Some(DefaultPercentageGap)},
        mx \in {None, Some(0), Some(MaxStake)},
        sm \in {None, Some(FALSE), Some(TRUE)}}

----------------------------------------------------------------------------
(* The engine *)

\* Bet.__init__ with the settings drawn from S, for an event that delivers n
\* snapshots
InitWith(S, n) ==
    /\ settings \in S
    /\ outcomes = clear_outcomes(EventOutcomes)
    /\ decision = <<>>
    /\ total_users = 0
    /\ total_points = 0
    /\ lastOp = "__init__"
    /\ snapshot = <<>>
    /\ balance = 0
    /\ reduce_amount = 0
    /\ skip_result = <<>>
    /\ ingests = 0
    /\ pending = n

Init == InitWith(PlainSettings, MaxIngests)

InitStealth == InitWith(StealthSettings, MaxIngests - 1)

InitFilter == InitWith(FilterSettings, MaxIngests - 1)

InitSettings == InitWith(UnsetSettings, MaxIngests)

\* update_outcomes sorts the top_predictors of its argument in place
sorted_snapshot(snap) ==
    [i \in Indexes |->
        IF snap[i].top_predictors # <<>>
        THEN [snap[i] EXCEPT !.top_predictors = SortedDesc(@)]
        ELSE snap[i]]

UpdateOutcomes ==
    \E snap \in Snapshots :
        /\ pending > 0
        /\ pending' = pending - 1
        /\ ingests' = ingests + 1
        /\ outcomes' = update_outcomes(outcomes, snap)
        /\ total_users' = sum_users(outcomes')
        /\ total_points' = sum_points(outcomes')
        /\ snapshot' = sorted_snapshot(snap)
        /\ lastOp' = "update_outcomes"
        /\ balance' = 0
        /\ reduce_amount' = 0
        /\ skip_result' = <<>>
        /\ UNCHANGED <<decision, settings>>

Calculate ==
    \E bal \in Balances :
        \E r2 \in (IF draws(outcomes, settings, bal) THEN ReduceDraws ELSE {0}) :
            /\ decision' = calculate(decision, outcomes, settings, bal, r2)
            /\ balance' = bal
            /\ reduce_amount' = r2
            /\ lastOp' = "calculate"
            /\ snapshot' = <<>>
            /\ skip_result' = <<>>
            /\ UNCHANGED <<outcomes, total_users, total_points, settings, ingests,
                           pending>>

\* A call of skip that returns: with a filter on a field of the chosen
\* outcome, skip raises unless calculate has made a choice.
Skip ==
    /\ skip_reads_choice(settings) =>
          /\ "choice" \in DOMAIN decision
          /\ decision.choice # None
    /\ skip_result' = skip(decision, outcomes, settings)
    /\ lastOp' = "skip"
    /\ snapshot' = <<>>
    /\ balance' = 0
    /\ reduce_amount' = 0
    /\ UNCHANGED <<outcomes, decision, total_users, total_points, settings,
                   ingests, pending>>

\* BetSettings.default, called on the settings before the engine runs
Default ==
    /\ lastOp = "__init__"
    /\ settings' = default(settings)
    /\ lastOp' = "default"
    /\ UNCHANGED <<outcomes, decision, total_users, total_points, snapshot,
                   balance, reduce_amount, skip_result, ingests, pending>>

Next == UpdateOutcomes \/ Calculate \/ Skip

NextSettings == Default

Spec == Init /\ [][Next]_vars

SpecStealth == InitStealth /\ [][Next]_vars

SpecFilter == InitFilter /\ [][Next]_vars

SpecSettings == InitSettings /\ [][NextSettings]_vars

----------------------------------------------------------------------------
(* Properties *)

Calculated == lastOp = "calculate"

HasChoice == "choice" \in DOMAIN decision /\ decision.choice # None

\* Index of the outcome the decision backs
Chosen == IF decision.choice = Some("A") THEN 0 ELSE 1

\* |percentage_users[0] - percentage_users[1]|, in hundredths
Gap == Abs(outcomes[0][PERCENTAGE_USERS] - outcomes[1][PERCENTAGE_USERS])

\* The field the configured strategy compares
ComparedKey ==
    IF settings.strategy = Some(MOST_VOTED) THEN TOTAL_USERS
    ELSE IF settings.strategy = Some(HIGH_ODDS) THEN ODDS
    ELSE IF settings.strategy = Some(PERCENTAGE) THEN ODDS_PERCENTAGE
    ELSE IF Gap < 100 * Val(settings.percentage_gap) THEN ODDS
    ELSE TOTAL_USERS

\* min(floor(balance * stakePercent / 100), maxStake) of the last calculate
Unadjusted ==
    Min((balance * Val(settings.percentage)) \div 100, Val(settings.max_points))

DerivedKeys == {PERCENTAGE_USERS, ODDS, ODDS_PERCENTAGE}

DerivedOf(os) == [i \in Indexes |-> [k \in DerivedKeys |-> os[i][k]]]

\* The derived fields as the raw totals held now give them
Recomputed(i) ==
    LET odds == float_round(total_points, outcomes[i][TOTAL_POINTS])
    IN  [k \in DerivedKeys |->
            IF k = PERCENTAGE_USERS
            THEN float_round(100 * outcomes[i][TOTAL_USERS], total_users)
            ELSE IF k = ODDS THEN odds
            ELSE float_round(10000, odds)]

\* C1 as stated: calculate picks "A" whenever the compared metric of outcome 0
\* is greater than or equal to that of outcome 1, and "B" only when outcome
\* 1's is strictly greater; a tie yields "A".
C1_TieYieldsA ==
    (Calculated /\ HasChoice) =>
        /\ outcomes[0][ComparedKey] >= outcomes[1][ComparedKey]
              => decision.choice = Some("A")
        /\ decision.choice = Some("B")
              => outcomes[1][ComparedKey] > outcomes[0][ComparedKey]

\* C1 amended: calculate picks "A" exactly when the compared metric of outcome
\* 0 is strictly greater than that of outcome 1, and "B" otherwise; a tie
\* yields "B".
C1_TieYieldsB ==
    (Calculated /\ HasChoice) =>
        /\ decision.choice \in {Some("A"), Some("B")}
        /\ decision.choice = Some("A")
              <=> outcomes[0][ComparedKey] > outcomes[1][ComparedKey]

\* C1 witness: a calculate on two outcomes whose compared metric ties above
\* zero, which chose "B".
C1_Witness ==
    /\ Calculated
    /\ HasChoice
    /\ guard(outcomes)
    /\ outcomes[0][ComparedKey] = outcomes[1][ComparedKey]
    /\ outcomes[0][ComparedKey] > 0
    /\ decision.choice = Some("B")

\* C2 as stated: the amount calculate decides is never negative, stealth mode
\* on or off, whatever the chosen outcome's top_points is.
C2_AmountNonNegative == Calculated => decision.amount >= 0

\* C3 as stated: calculate on a freshly constructed engine, before any
\* update_outcomes call, yields amount 0.
C3_FreshAmountZero == (Calculated /\ ingests = 0) => decision.amount = 0

\* C3 amended: calculate on a freshly constructed engine chooses "B", outcome
\* 1, for every strategy; with stealth mode off the amount is
\* min(floor(balance * stakePercent / 100), maxStake), and with stealth mode
\* on it is int(0 - r) for the draw r.
C3_FreshStake ==
    (Calculated /\ ingests = 0) =>
        /\ decision.choice = Some("B")
        /\ decision.id = Some(outcomes[1]["id"])
        /\ decision.amount =
              IF settings.stealth_mode = Some(TRUE)
              THEN int_halves(0 - reduce_amount)
              ELSE Unadjusted

\* C3 witness: a calculate on a fresh engine that decides the capped stake.
C3_Witness ==
    /\ Calculated
    /\ ingests = 0
    /\ balance = MaxBalance
    /\ decision.amount = MaxStake
    /\ decision.amount > 0

\* C4 as stated: once a snapshot has been ingested, the derived fields of each
\* outcome are either never computed (zero) or the ones the raw totals held
\* now give; none is left from an earlier snapshot beside newer raw totals.
C4_NeverStale ==
    ingests > 0 =>
        \A i \in Indexes :
            \/ \A k \in DerivedKeys : outcomes[i][k] = 0
            \/ guard(outcomes) /\ DerivedOf(outcomes)[i] = Recomputed(i)

\* C4 amended: whenever the raw totals held satisfy the guard (total_users > 0
\* and both total_points > 0), the derived fields of each outcome are the ones
\* computed from these raw totals; a snapshot that fails the guard leaves the
\* derived fields of the last snapshot that satisfied it beside its own raw
\* totals.
C4_FreshUnderGuard ==
    guard(outcomes) => \A i \in Indexes : DerivedOf(outcomes)[i] = Recomputed(i)

\* C4 witness: the second snapshot satisfies the guard and gives the two
\* outcomes different odds.
C4_Witness ==
    /\ lastOp = "update_outcomes"
    /\ ingests = 2
    /\ guard(outcomes)
    /\ outcomes[0][ODDS] > outcomes[1][ODDS]
    /\ outcomes[0][PERCENTAGE_USERS] < outcomes[1][PERCENTAGE_USERS]

SettingsFields ==
    {"strategy", "percentage", "percentage_gap", "max_points", "stealth_mode"}

DefaultOf(f) ==
    IF f = "strategy" THEN Some(SMART)
    ELSE IF f = "percentage" THEN Some(5)
    ELSE IF f = "percentage_gap" THEN Some(20)
    ELSE IF f = "max_points" THEN Some(50000)
    ELSE Some(FALSE)

\* C5 as stated: default() replaces every unset field by its default (SMART,
\* 5, 20, 50000, False) and leaves every set field unchanged.
C5_DefaultFillsUnset ==
    [][lastOp' = "default" =>
          \A f \in SettingsFields :
              settings'[f] = IF settings[f] = None THEN DefaultOf(f)
                             ELSE settings[f]]_vars

\* C6: with stealth mode on, the amount calculate decides is strictly less
\* than the chosen outcome's top_points, and when the unadjusted amount is at
\* least top_points it lies in [top_points - 5, top_points - 1].
C6_StealthBelowTop ==
    (Calculated /\ HasChoice /\ settings.stealth_mode = Some(TRUE)) =>
        LET top == outcomes[Chosen][TOP_POINTS]
        IN  /\ decision.amount < top
            /\ Unadjusted >= top =>
                  /\ reduce_amount \in ReduceDraws
                  /\ top - 5 <= decision.amount
                  /\ decision.amount <= top - 1

\* C6 witness: the unadjusted amount equals the top_points an ingest recorded
\* and the decided amount is below it.
C6_Witness ==
    /\ Calculated
    /\ HasChoice
    /\ settings.stealth_mode = Some(TRUE)
    /\ outcomes[Chosen][TOP_POINTS] = LargeTop
    /\ Unadjusted = LargeTop
    /\ decision.amount = LargeTop - 1

\* The value skip compares, as the filter's metric defines it
FilterValue ==
    LET by == Val(settings.filter_condition).by
    IN  IF by \in {TOTAL_USERS, TOTAL_POINTS}
        THEN outcomes[0][by] + outcomes[1][by]
        ELSE IF by = DECISION_USERS THEN outcomes[Chosen][TOTAL_USERS]
        ELSE IF by = DECISION_POINTS THEN outcomes[Chosen][TOTAL_POINTS]
        ELSE outcomes[Chosen][by]

ComparatorHolds ==
    LET f == Val(settings.filter_condition)
    IN  CASE f.where = GT -> FilterValue > f.value
          [] f.where = LT -> FilterValue < f.value
          [] f.where = GTE -> FilterValue >= f.value
          [] f.where = LTE -> FilterValue <= f.value

\* C7: with a filter configured, skip returns (False, v) exactly when the
\* comparator holds for v against the threshold and (True, v) otherwise, v
\* being the sum over both outcomes for total_users and total_points, the
\* chosen outcome's total for decision_users and decision_points, and the
\* chosen outcome's own field for the other metrics.
C7_SkipIffComparatorFails ==
    (lastOp = "skip" /\ settings.filter_condition # None) =>
        skip_result = <<~ComparatorHolds, FilterValue>>

\* C7 witness: a filter decision_points >= threshold that the chosen outcome
\* 0 meets exactly, so skip returned (False, threshold).
C7_Witness ==
    /\ lastOp = "skip"
    /\ settings.filter_condition # None
    /\ Val(settings.filter_condition).by = DECISION_POINTS
    /\ Val(settings.filter_condition).where = GTE
    /\ decision.choice = Some("A")
    /\ outcomes[1][TOTAL_POINTS] < MaxPoints
    /\ skip_result = <<FALSE, Val(settings.filter_condition).value>>

\* C8: under SMART, calculate chooses as HIGH_ODDS would on the same outcomes
\* when the gap of percentage_users is below percentage_gap and as MOST_VOTED
\* would otherwise; after the snapshot {10 users, 1000 points}, {90 users,
\* 9000 points} with percentage_gap 20 it chooses "B" with amount
\* min(floor(balance * stakePercent / 100), maxStake).
C8_SmartDefers ==
    (Calculated /\ settings.strategy = Some(SMART)) =>
        /\ decision.choice =
              IF Gap < 100 * Val(settings.percentage_gap)
              THEN choice_of(outcomes, [settings EXCEPT !.strategy = Some(HIGH_ODDS)])
              ELSE choice_of(outcomes, [settings EXCEPT !.strategy = Some(MOST_VOTED)])
        /\ ( /\ \A i \in Indexes :
                   /\ outcomes[i][TOTAL_USERS] = ExampleSnapshot[i].total_users
                   /\ outcomes[i][TOTAL_POINTS] = ExampleSnapshot[i].total_points
             /\ settings.percentage_gap = Some(20) )
           => /\ decision.choice = Some("B")
              /\ decision.amount = Unadjusted

\* C8 witness: SMART with percentage_gap 20 decided on the example snapshot.
C8_Witness ==
    /\ Calculated
    /\ settings.strategy = Some(SMART)
    /\ settings.percentage_gap = Some(20)
    /\ outcomes[0][TOTAL_USERS] = 10
    /\ outcomes[1][TOTAL_POINTS] = 9000
    /\ outcomes[0][PERCENTAGE_USERS] = 1000
    /\ outcomes[0][ODDS] > outcomes[1][ODDS]
    /\ decision.choice = Some("B")
    /\ decision.amount = MaxStake

RawOf(os) ==
    [i \in Indexes |-> <<os[i][TOTAL_USERS], os[i][TOTAL_POINTS]>>]

\* C9: an update_outcomes call always overwrites the raw totals with the
\* snapshot's; when the snapshot fails the guard it leaves percentage_users,
\* odds and odds_percentage of both outcomes as they were (zero before the
\* first snapshot that satisfies the guard), and when the snapshot satisfies
\* the guard the odds of both outcomes are above zero.
C9_GuardedDerivation ==
    /\ [][ingests' = ingests + 1 =>
            /\ RawOf(outcomes') =
                  [i \in Indexes |->
                      <<snapshot'[i].total_users, snapshot'[i].total_points>>]
            /\ IF guard(outcomes')
               THEN \A i \in Indexes : outcomes'[i][ODDS] > 0
               ELSE DerivedOf(outcomes') = DerivedOf(outcomes)]_vars
    /\ [](\A i \in Indexes :
            outcomes[i][ODDS] = 0 =>
                \A j \in Indexes, k \in DerivedKeys : outcomes[j][k] = 0)

\* C9 witness: the second snapshot fails the guard; its raw totals are held
\* beside the derived fields of the first.
C9_Witness ==
    /\ lastOp = "update_outcomes"
    /\ ingests = 2
    /\ ~guard(outcomes)
    /\ total_users > 0
    /\ outcomes[0][TOTAL_POINTS] = 0
    /\ outcomes[0][ODDS] > 0

\* C10: calculate leaves the outcome records, the event totals and the
\* settings unchanged, and the decision it leaves is the one it would leave on
\* an engine that never decided before, given the same outcomes, settings,
\* balance and draw.
C10_CalculatePure ==
    /\ [][lastOp' = "calculate" =>
            UNCHANGED <<outcomes, total_users, total_points, settings>>]_vars
    /\ [](Calculated =>
            decision = calculate(<<>>, outcomes, settings, balance, reduce_amount))

\* C10 witness: a calculate after two snapshots, deciding on outcomes whose
\* derived fields differ, with the whole stake.
C10_Witness ==
    /\ Calculated
    /\ ingests = 2
    /\ guard(outcomes)
    /\ decision.choice = Some("A")
    /\ decision.amount = LargeTop
    /\ balance = LargeTop

====
